---- MODULE Spec2Model ----
(***************************************************************************)
(* A state-machine model of src/app.py, the Streamlit dashboard "Material  *)
(* Production and CO2 Emissions Forecast".  One run of the script is one   *)
(* behaviour: the two uploaded workbooks are the initial state, and every  *)
(* block of the script is one action, taken in program order (pc).         *)
(*                                                                         *)
(* Numbers: the script computes in IEEE doubles; the model computes in     *)
(* integers, i.e. in exact arithmetic.  A spreadsheet cell is a record     *)
(* [k, v] whose kind k is "fin", "nan", "inf" or "ninf".                   *)
(* The Holt-Winters library is outside the repository: whether a fit       *)
(* returns or raises is a nondeterministic choice, and the level and trend *)
(* it settles on are part of the initial state (holt).                     *)
(***************************************************************************)
EXTENDS Integers, Sequences, FiniteSets, TLC

VARIABLES
    materials_db_file,           \* uploaded Materials DB workbook (line 34)
    data_file,                   \* uploaded Production Data workbook (line 35)
    holt,                        \* level/trend the library fits, per series
    pc,                          \* position of the script
    error,                       \* the exception or st.error that ended the run
    shown,                       \* elements rendered on the page so far
    solids_materials,            \* line 60
    concentrates_materials,      \* line 61
    material_diversity_summary,  \* lines 73-80
    production,                  \* lines 111, 117
    co2_emissions,               \* lines 112, 118
    plastics_co2_emissions,      \* lines 113, 119
    models,                      \* lines 125-127: fitted models
    predictions                  \* lines 143-158: the forecast table

vars == <<materials_db_file, data_file, holt, pc, error, shown,
          solids_materials, concentrates_materials, material_diversity_summary,
          production, co2_emissions, plastics_co2_emissions, models, predictions>>

(***************************************************************************)
(* Bounds of the model.                                                    *)
(***************************************************************************)
MaxMaterials == 3     \* material cells below the header rows of a sheet
MaxRows == 2          \* rows of the Production sheet
MaxLevel == 3         \* fitted levels range over 0..MaxLevel
MaxTrend == 1         \* fitted trends range over -MaxTrend..MaxTrend

(***************************************************************************)
(* Program constants.                                                      *)
(***************************************************************************)
SolidsSkipRows == 3          \* iloc[3:, [1]]
ConcentratesSkipRows == 2    \* iloc[2:, [2]]
future_steps == 24

industries_count == 100

(***************************************************************************)
(* Generic helpers.                                                        *)
(***************************************************************************)
Range(s) == {s[i] : i \in 1..Len(s)}

Min2(a, b) == IF a <= b THEN a ELSE b

SeqsUpTo(S, n) == UNION {[1..k -> S] : k \in 0..n}

Drop(s, n) == IF Len(s) <= n THEN <<>> ELSE SubSeq(s, n + 1, Len(s))

Take(s, n) == SubSeq(s, 1, Min2(n, Len(s)))

(***************************************************************************)
(* Spreadsheet cells.                                                      *)
(***************************************************************************)
NaN == "nan"                              \* an empty text cell
MaterialNames == {"A", "B"}
MaterialCells == MaterialNames \cup {NaN}
Title == "Title"                          \* text of a header/metadata row

NumNaN == [k |-> "nan", v |-> 0]       \* np.nan in a numeric column

ColDate == "Date"
ColTPM == "TPM"
ColCO2 == "MyBC growth CO2 Produced Tons (1,6 kg per ton)"
ColPlastics == "Plastic encineration(2.9kg CO2 per kg)"
RequiredColumns == {ColDate, ColTPM, ColCO2, ColPlastics}

(***************************************************************************)
(* Calendar: a date is [y, m, d].                                          *)
(***************************************************************************)
IsLeap(y) == (y % 4 = 0 /\ y % 100 # 0) \/ y % 400 = 0

DaysInMonth(y, m) ==
    IF m = 2 THEN (IF IsLeap(y) THEN 29 ELSE 28)
    ELSE IF m \in {4, 6, 9, 11} THEN 30 ELSE 31

MonthIndex(date) == 12 * date.y + (date.m - 1)

\* The month-end anchored date of the month with index mi.
MonthEndOf(mi) ==
    LET y == mi \div 12
        m == (mi % 12) + 1
    IN  [y |-> y, m |-> m, d |-> DaysInMonth(y, m)]

\* MonthEnd.rollforward: a date on a month end stays, any other date moves
\* to the end of its own month.
RollForward(date) == MonthEndOf(MonthIndex(date))

\* pd.date_range(start=start, periods=periods, freq='M'): the range starts at
\* start rolled forward to a month end and steps one month end at a time.
date_range(start, periods) ==
    [i \in 1..periods |-> MonthEndOf(MonthIndex(RollForward(start)) + (i - 1))]

DateBefore(a, b) ==
    \/ a.y < b.y
    \/ a.y = b.y /\ a.m < b.m
    \/ a.y = b.y /\ a.m = b.m /\ a.d < b.d

\* The date i months after start, the day clipped to the month's length.
MonthlyDate(start, i) ==
    LET e == MonthEndOf(MonthIndex(start) + i)
    IN  [e EXCEPT !.d = Min2(start.d, e.d)]

(***************************************************************************)
(* Material Coverage Analyzer, lines 60-80.                                *)
(***************************************************************************)
dropna(cells) == SelectSeq(cells, LAMBDA c : c # NaN)

\* sheet.iloc[skip:, [col]].dropna().rename(columns={"Unnamed: col": "Material"})
ExtractMaterials(sheet, skip) == dropna(Drop(sheet.cells, skip))

\* After the rename the frame has a column "Material" only if the extracted
\* column was called "Unnamed: <col>" (a blank header cell) or "Material".
HasMaterialColumn(sheet, unnamed) == sheet.header \in {unnamed, "Material"}

\* Variant: len(col), which counts a repeated name each time.
nuniqueWithDuplicates(col) == Len(col)

\* Series.nunique(): the number of distinct non-missing values.
nunique(col) == Cardinality(Range(col) \ {NaN})

\* len(set(a).intersection(set(b)))
overlap(a, b) == Cardinality(Range(a) \cap Range(b))

DiversitySummary(sol, conc) ==
    LET solids_count == nunique(sol)
        concentrates_count == nunique(conc)
        all_materials == sol \o conc
        all_materials_unique == nunique(all_materials)
        overlap_count == overlap(sol, conc)
        unique_solids == solids_count - overlap_count
        unique_concentrates == concentrates_count - overlap_count
    IN  [UniqueSolids |-> solids_count,
         UniqueConcentrates |-> concentrates_count,
         TotalUnique |-> all_materials_unique,
         Overlapping |-> overlap_count,
         UniqueToSolids |-> unique_solids,
         UniqueToConcentrates |-> unique_concentrates]

NoSummary ==
    [UniqueSolids |-> 0, UniqueConcentrates |-> 0, TotalUnique |-> 0,
     Overlapping |-> 0, UniqueToSolids |-> 0, UniqueToConcentrates |-> 0]

(***************************************************************************)
(* Series Preparer, lines 109-119.  A series is a sequence of              *)
(* [Date, v]: the value v of a column, indexed by the row's date.          *)
(***************************************************************************)
\* production_data[column] after set_index('Date'): rows keep their order.
Column(table, column) ==
    [i \in 1..Len(table.rows) |->
        [Date |-> table.rows[i].Date, v |-> table.rows[i][column]]]

\* .replace([np.inf, -np.inf], np.nan)
replace_inf(series) ==
    [i \in 1..Len(series) |->
        IF series[i].v.k \in {"inf", "ninf"}
        THEN [series[i] EXCEPT !.v = NumNaN]
        ELSE series[i]]

\* Series.dropna()
dropna_series(series) == SelectSeq(series, LAMBDA e : e.v.k # "nan")

CleanSeries(table, column) == dropna_series(replace_inf(Column(table, column)))

Min3(a, b, c) == Min2(a, Min2(b, c))

\* Variant: series.iloc[-n:], the last n entries.
ilocTail(series, n) == SubSeq(series, Len(series) - Min2(n, Len(series)) + 1, Len(series))

\* series.iloc[:n]
iloc(series, n) == Take(series, n)

(***************************************************************************)
(* Forecast Engine, lines 121-140.                                         *)
(***************************************************************************)
\* HoltWintersResults.forecast(steps) of an additive-trend model without
\* seasonal component and without damping: level + h * trend, h = 1..steps.
forecast(model, steps) == [h \in 1..steps |-> model.level + h * model.trend]

\* Variant: the range without the [1:] slice.
future_datesKeepAll(last) == date_range(last, future_steps + 1)

\* Variant: the slice [:-1], which keeps the start of the range.
future_datesKeepFirst(last) == Take(date_range(last, future_steps + 1), future_steps)

\* pd.date_range(start=production.index[-1], periods=future_steps + 1, freq='M')[1:]
future_dates(last) == Drop(date_range(last, future_steps + 1), 1)

(***************************************************************************)
(* KPI Derivation, lines 143-158.                                          *)
(***************************************************************************)
Difference(a, b) == [i \in 1..Len(a) |-> a[i] - b[i]]

\* a / b row by row, kept as the unevaluated fraction (b may be zero).
Ratio(a, b) == [i \in 1..Len(a) |-> [num |-> a[i], den |-> b[i]]]

RECURSIVE cumsum(_)
\* Series.cumsum(): a sequential running sum.
cumsum(s) ==
    IF s = <<>> THEN <<>>
    ELSE LET before == cumsum(SubSeq(s, 1, Len(s) - 1))
             carry == IF before = <<>> THEN 0 ELSE before[Len(before)]
         IN  Append(before, carry + s[Len(s)])

\* Variant: the operands of the difference exchanged.
CumulativeReductionSwapped(plastics, material) == cumsum(Difference(material, plastics))

\* Variant: the difference without .cumsum().
CumulativeReductionNoCumsum(plastics, material) == Difference(plastics, material)

\* (predictions[Plastics] - predictions[Material]).cumsum()
CumulativeReduction(plastics, material) == cumsum(Difference(plastics, material))

\* Variant: scaled by future_steps instead of industries_count.
ScaledByHorizon(column) == [i \in 1..Len(column) |-> column[i] * future_steps]

\* predictions[column] * industries_count
Scaled(column) == [i \in 1..Len(column) |-> column[i] * industries_count]

\* The predictions DataFrame of lines 143-158.
BuildPredictions(dates, future_production, future_co2, future_plastics_co2) ==
    LET cumulative == CumulativeReduction(future_plastics_co2, future_co2)
    IN  [Date |-> dates,
         PredictedProduction |-> future_production,
         PredictedMaterial |-> future_co2,
         PredictedPlastics |-> future_plastics_co2,
         CO2PerTonMaterial |-> Ratio(future_co2, future_production),
         CO2PerTonPlastics |-> Ratio(future_plastics_co2, future_production),
         CumulativeCO2Reduction |-> cumulative,
         TotalCO2Reduction100 |-> Scaled(cumulative),
         PlasticAvoided100 |-> Scaled(future_production)]

NoPredictions ==
    [Date |-> <<>>, PredictedProduction |-> <<>>, PredictedMaterial |-> <<>>,
     PredictedPlastics |-> <<>>, CO2PerTonMaterial |-> <<>>,
     CO2PerTonPlastics |-> <<>>, CumulativeCO2Reduction |-> <<>>,
     TotalCO2Reduction100 |-> <<>>, PlasticAvoided100 |-> <<>>]

NoModel == [level |-> 0, trend |-> 0]
NoModels == [production |-> NoModel, co2 |-> NoModel, plastics |-> NoModel]

(***************************************************************************)
(* What the page can show.                                                 *)
(***************************************************************************)
CoverageOutput == {"summary", "pie_chart", "bar_chart"}
ForecastOutput ==
    {"predictions", "forecast_chart", "per_ton_chart", "reduction_chart",
     "avoidance_chart", "recommendations"}
Output == CoverageOutput \cup ForecastOutput

(***************************************************************************)
(* The uploaded files: the inputs of a run.                                *)
(***************************************************************************)
Titles(n) == [i \in 1..n |-> Title]

\* The material-name column of a sheet: its header cell and its cells, the
\* first skip of which are header/metadata rows.
MaterialSheet(header, skip, body) == [header |-> header, cells |-> Titles(skip) \o body]

MaterialsWorkbook(names, solids, concentrates) ==
    [uploaded |-> TRUE, sheet_names |-> names,
     Solids |-> solids, Concentrates |-> concentrates]

ProductionWorkbook(names, table) ==
    [uploaded |-> TRUE, sheet_names |-> names, Production |-> table]

DefaultStart == [y |-> 2023, m |-> 1, d |-> 1]

StartDates ==
    {DefaultStart,
     [y |-> 2023, m |-> 1, d |-> 31],
     [y |-> 2023, m |-> 11, d |-> 15],
     [y |-> 2023, m |-> 12, d |-> 31],
     [y |-> 2024, m |-> 1, d |-> 30],
     [y |-> 2024, m |-> 2, d |-> 29]}

\* The finite value of the cell in column c (1..3) of row i.
CellValue(c, i) == 10 * c + i

Kinds == {"fin", "nan", "inf", "ninf"}

\* The cell of kind k in column c of row i.
Cell(k, c, i) == [k |-> k, v |-> IF k = "fin" THEN CellValue(c, i) ELSE 0]

Row(date, tpm, co2, plastics) ==
    (ColDate :> date) @@ (ColTPM :> tpm) @@ (ColCO2 :> co2) @@ (ColPlastics :> plastics)

\* A Production sheet with all four columns, rows one month apart from start.
Table(start, cells) ==
    [columns |-> RequiredColumns,
     rows |-> [i \in 1..Len(cells) |->
                 Row(MonthlyDate(start, i - 1), cells[i][1], cells[i][2], cells[i][3])]]

Reverse(s) == [i \in 1..Len(s) |-> s[Len(s) + 1 - i]]

FiniteCells(n) == [i \in 1..n |-> [c \in 1..3 |-> Cell("fin", c, i)]]

\* The table whose row i holds, in column c, a cell of kind kinds[i][c].
KindsTable(kinds) ==
    Table(DefaultStart,
          [i \in 1..Len(kinds) |-> [c \in 1..3 |-> Cell(kinds[i][c], c, i)]])

DefaultTable == Table(DefaultStart, FiniteCells(2))

\* Tables for the forecasting runs: all cells finite; the material CO2 of
\* the last row missing (production is truncated); rows in descending order.
SampleTables ==
    UNION {{Table(start, FiniteCells(n)),
            Table(start, [FiniteCells(n) EXCEPT ![n][2] = NumNaN]),
            [Table(start, FiniteCells(n)) EXCEPT !.rows = Reverse(@)]}
           : start \in StartDates, n \in 1..MaxRows}

DefaultSolids == MaterialSheet("Unnamed: 1", SolidsSkipRows, <<"A", "B">>)
DefaultConcentrates == MaterialSheet("Unnamed: 2", ConcentratesSkipRows, <<"B">>)
DefaultMaterials == MaterialsWorkbook({"Solids", "Concentrates"}, DefaultSolids, DefaultConcentrates)
DefaultProduction == ProductionWorkbook({"Production"}, DefaultTable)

HoltParams == [level : 0..MaxLevel, trend : (0 - MaxTrend)..MaxTrend]
DefaultHolt ==
    [production |-> [level |-> 3, trend |-> 1],
     co2 |-> [level |-> 1, trend |-> 0],
     plastics |-> [level |-> 2, trend |-> 1]]

NotUploaded(book) == [book EXCEPT !.uploaded = FALSE]

\* The state a run starts in: both uploads and what the library will fit.
Upload(materials, data, fitted) ==
    /\ materials_db_file = materials
    /\ data_file = data
    /\ holt = fitted
    /\ pc = "start"
    /\ error = "none"
    /\ shown = {}
    /\ solids_materials = <<>>
    /\ concentrates_materials = <<>>
    /\ material_diversity_summary = NoSummary
    /\ production = <<>>
    /\ co2_emissions = <<>>
    /\ plastics_co2_emissions = <<>>
    /\ models = NoModels
    /\ predictions = NoPredictions

\* Runs that differ in what was uploaded and in the sheets, header cells and
\* columns the workbooks hold.
WorkbookRuns ==
    \/ \E a \in {DefaultMaterials, NotUploaded(DefaultMaterials)},
          b \in {DefaultProduction, NotUploaded(DefaultProduction)} :
            Upload(a, b, DefaultHolt)
    \/ \E names \in SUBSET {"Solids", "Concentrates", "Notes"},
          pnames \in {{"Production"}, {"Sheet1"}, {}} :
            Upload([DefaultMaterials EXCEPT !.sheet_names = names],
                   [DefaultProduction EXCEPT !.sheet_names = pnames], DefaultHolt)
    \/ \E h1 \in {"Unnamed: 1", "Material", "Name"},
          h2 \in {"Unnamed: 2", "Material", "Name"} :
            Upload([DefaultMaterials EXCEPT !.Solids.header = h1,
                                            !.Concentrates.header = h2],
                   DefaultProduction, DefaultHolt)
    \/ \E cols \in SUBSET RequiredColumns :
            Upload(DefaultMaterials,
                   [DefaultProduction EXCEPT !.Production.columns = cols], DefaultHolt)

\* The material column of a sheet: header rows and material cells below
\* them, or a sheet shorter than its header rows.
MaterialColumns(skip) ==
    {Titles(skip) \o body : body \in SeqsUpTo(MaterialCells, MaxMaterials)}
    \cup {Titles(n) : n \in 0..skip}

\* Runs that differ in the material cells of the two sheets.
CoverageRuns ==
    \E s \in MaterialColumns(SolidsSkipRows), c \in MaterialColumns(ConcentratesSkipRows) :
        Upload([DefaultMaterials EXCEPT !.Solids.cells = s, !.Concentrates.cells = c],
               DefaultProduction, DefaultHolt)

\* Runs that differ in the cells of the Production sheet.
SeriesRuns ==
    \E kinds \in SeqsUpTo(Kinds \X Kinds \X Kinds, MaxRows) :
        Upload(DefaultMaterials,
               [DefaultProduction EXCEPT !.Production = KindsTable(kinds)], DefaultHolt)

\* Runs that differ in the dates of the Production sheet, or in what the
\* library fits.
ForecastRuns ==
    \/ \E t \in SampleTables :
        Upload(DefaultMaterials, [DefaultProduction EXCEPT !.Production = t], DefaultHolt)
    \/ \E p \in HoltParams, c \in HoltParams, q \in HoltParams :
        Upload(DefaultMaterials, DefaultProduction,
               [production |-> p, co2 |-> c, plastics |-> q])

Init == WorkbookRuns \/ CoverageRuns \/ SeriesRuns \/ ForecastRuns

(***************************************************************************)
(* The script, block by block.                                             *)
(***************************************************************************)
Halt(position, cause, rendered) ==
    /\ pc' = position
    /\ error' = cause
    /\ shown' = shown \cup rendered

\* Lines 37, 222-223: without both files the script only asks for them.
AwaitUpload ==
    /\ pc = "start"
    /\ ~(materials_db_file.uploaded /\ data_file.uploaded)
    /\ pc' = "waiting"
    /\ shown' = shown \cup {"st.warning"}
    /\ UNCHANGED <<materials_db_file, data_file, holt, error, solids_materials,
                   concentrates_materials, material_diversity_summary, production,
                   co2_emissions, plastics_co2_emissions, models, predictions>>

\* Variant: 'or' in place of 'and'.
HasEitherMaterialSheet(names) == "Solids" \in names \/ "Concentrates" \in names

\* Line 44: 'Solids' in materials_sheet_names and 'Concentrates' in ...
HasMaterialSheets(names) == "Solids" \in names /\ "Concentrates" \in names

\* Line 53: 'Production' in production_sheet_names
HasProductionSheet(names) == "Production" \in names

\* Lines 38-49: the Materials DB must hold 'Solids' and 'Concentrates'.
LoadMaterials ==
    /\ pc = "start"
    /\ materials_db_file.uploaded /\ data_file.uploaded
    /\ IF HasMaterialSheets(materials_db_file.sheet_names)
       THEN /\ pc' = "materials_parsed"
            /\ UNCHANGED <<error, shown>>
       ELSE Halt("stopped", "MissingMaterialSheets", {"st.error"})
    /\ UNCHANGED <<materials_db_file, data_file, holt, solids_materials,
                   concentrates_materials, material_diversity_summary, production,
                   co2_emissions, plastics_co2_emissions, models, predictions>>

\* Lines 51-57: the Production Data must hold 'Production'.
LoadProduction ==
    /\ pc = "materials_parsed"
    /\ IF HasProductionSheet(data_file.sheet_names)
       THEN /\ pc' = "production_parsed"
            /\ UNCHANGED <<error, shown>>
       ELSE Halt("stopped", "MissingProductionSheet", {"st.error"})
    /\ UNCHANGED <<materials_db_file, data_file, holt, solids_materials,
                   concentrates_materials, material_diversity_summary, production,
                   co2_emissions, plastics_co2_emissions, models, predictions>>

\* Lines 60-80: extract the two material columns and summarise them.  The
\* lookup of "Material" raises KeyError when the rename did not apply.
AnalyzeDiversity ==
    /\ pc = "production_parsed"
    /\ LET sol == ExtractMaterials(materials_db_file.Solids, SolidsSkipRows)
           conc == ExtractMaterials(materials_db_file.Concentrates, ConcentratesSkipRows)
       IN  IF HasMaterialColumn(materials_db_file.Solids, "Unnamed: 1")
              /\ HasMaterialColumn(materials_db_file.Concentrates, "Unnamed: 2")
           THEN /\ solids_materials' = sol
                /\ concentrates_materials' = conc
                /\ material_diversity_summary' = DiversitySummary(sol, conc)
                /\ pc' = "analyzed"
                /\ UNCHANGED <<error, shown>>
           ELSE /\ Halt("exception", "KeyError: Material", {"exception"})
                /\ UNCHANGED <<solids_materials, concentrates_materials,
                               material_diversity_summary>>
    /\ UNCHANGED <<materials_db_file, data_file, holt, production,
                   co2_emissions, plastics_co2_emissions, models, predictions>>

\* Lines 82-106: the summary and its two charts are rendered.
DisplayDiversity ==
    /\ pc = "analyzed"
    /\ pc' = "diversity_shown"
    /\ shown' = shown \cup CoverageOutput
    /\ UNCHANGED <<materials_db_file, data_file, holt, error, solids_materials,
                   concentrates_materials, material_diversity_summary, production,
                   co2_emissions, plastics_co2_emissions, models, predictions>>

\* Lines 86-96: the summary is written, then the pie chart of the values
\* [unique_solids, unique_concentrates, overlap_count] is drawn.  When all
\* three are zero the wedge fractions are 0/0; whether matplotlib then draws
\* an empty chart (DisplayDiversity) or raises is left open.
DisplayDiversityPieError ==
    /\ pc = "analyzed"
    /\ material_diversity_summary.UniqueToSolids = 0
    /\ material_diversity_summary.UniqueToConcentrates = 0
    /\ material_diversity_summary.Overlapping = 0
    /\ Halt("exception", "PieError", {"summary", "exception"})
    /\ UNCHANGED <<materials_db_file, data_file, holt, solids_materials,
                   concentrates_materials, material_diversity_summary, production,
                   co2_emissions, plastics_co2_emissions, models, predictions>>

\* Lines 109-119: index by Date, clean each column on its own, truncate all
\* three to the shortest.  A column the sheet lacks raises KeyError.
PrepareSeries ==
    /\ pc = "diversity_shown"
    /\ LET table == data_file.Production
           p == CleanSeries(table, ColTPM)
           c == CleanSeries(table, ColCO2)
           q == CleanSeries(table, ColPlastics)
           min_length == Min3(Len(p), Len(c), Len(q))
       IN  IF RequiredColumns \subseteq table.columns
           THEN /\ production' = iloc(p, min_length)
                /\ co2_emissions' = iloc(c, min_length)
                /\ plastics_co2_emissions' = iloc(q, min_length)
                /\ pc' = "series_prepared"
                /\ UNCHANGED <<error, shown>>
           ELSE /\ Halt("exception", "KeyError: Production column", {"exception"})
                /\ UNCHANGED <<production, co2_emissions, plastics_co2_emissions>>
    /\ UNCHANGED <<materials_db_file, data_file, holt, solids_materials,
                   concentrates_materials, material_diversity_summary,
                   models, predictions>>

\* Lines 122-123 set the warnings filter to "ignore" for ConvergenceWarning,
\* so the library never raises one: the handler of lines 131-132 is dead.

\* Lines 124-127: the three fits return.
FitModels ==
    /\ pc = "series_prepared"
    /\ models' = holt
    /\ pc' = "models_fitted"
    /\ UNCHANGED <<materials_db_file, data_file, holt, error, shown, solids_materials,
                   concentrates_materials, material_diversity_summary, production,
                   co2_emissions, plastics_co2_emissions, predictions>>

\* The handler without its st.stop(): the script runs on after the error.
FitValueErrorNoStop ==
    /\ pc = "series_prepared"
    /\ Halt("models_fitted", "FitValueError", {"st.error"})
    /\ UNCHANGED <<materials_db_file, data_file, holt, solids_materials,
                   concentrates_materials, material_diversity_summary, production,
                   co2_emissions, plastics_co2_emissions, models, predictions>>

\* Lines 128-130: a fit raises ValueError; st.error, st.stop.
FitValueError ==
    /\ pc = "series_prepared"
    /\ Halt("stopped", "FitValueError", {"st.error"})
    /\ UNCHANGED <<materials_db_file, data_file, holt, solids_materials,
                   concentrates_materials, material_diversity_summary, production,
                   co2_emissions, plastics_co2_emissions, models, predictions>>

\* Lines 124-127: a fit raises an exception the script does not catch.
FitException ==
    /\ pc = "series_prepared"
    /\ Halt("exception", "FitException", {"exception"})
    /\ UNCHANGED <<materials_db_file, data_file, holt, solids_materials,
                   concentrates_materials, material_diversity_summary, production,
                   co2_emissions, plastics_co2_emissions, models, predictions>>

\* Lines 135-158: future dates, the three forecasts, the derived columns.
\* production.index[-1] raises IndexError on an empty series.
GeneratePredictions ==
    /\ pc = "models_fitted"
    /\ IF production = <<>>
       THEN /\ Halt("exception", "IndexError", {"exception"})
            /\ UNCHANGED predictions
       ELSE /\ predictions' =
                  BuildPredictions(future_dates(production[Len(production)].Date),
                                   forecast(models.production, future_steps),
                                   forecast(models.co2, future_steps),
                                   forecast(models.plastics, future_steps))
            /\ pc' = "predicted"
            /\ UNCHANGED <<error, shown>>
    /\ UNCHANGED <<materials_db_file, data_file, holt, solids_materials,
                   concentrates_materials, material_diversity_summary, production,
                   co2_emissions, plastics_co2_emissions, models>>

\* Lines 160-221: the forecast table, its charts and the recommendations.
DisplayForecast ==
    /\ pc = "predicted"
    /\ pc' = "done"
    /\ shown' = shown \cup ForecastOutput
    /\ UNCHANGED <<materials_db_file, data_file, holt, error, solids_materials,
                   concentrates_materials, material_diversity_summary, production,
                   co2_emissions, plastics_co2_emissions, models, predictions>>

Next ==
    \/ AwaitUpload
    \/ LoadMaterials
    \/ LoadProduction
    \/ AnalyzeDiversity
    \/ DisplayDiversity
    \/ DisplayDiversityPieError
    \/ PrepareSeries
    \/ FitModels
    \/ FitValueError
    \/ FitException
    \/ GeneratePredictions
    \/ DisplayForecast

Spec == Init /\ [][Next]_vars

(***************************************************************************)
(* Properties.                                                             *)
(***************************************************************************)
Uploaded == materials_db_file.uploaded /\ data_file.uploaded

\* The coverage summary has been computed (line 80 was passed).
Analyzed == pc = "analyzed" \/ "summary" \in shown

\* The three series have been cleaned and truncated (line 119 was passed).
Prepared ==
    \/ pc \in {"series_prepared", "models_fitted", "predicted", "done"}
    \/ error \in {"FitValueError", "FitException", "IndexError"}

\* ExponentialSmoothing(...).fit() has been called (line 125 was reached).
FitAttempted ==
    \/ pc \in {"models_fitted", "predicted", "done"}
    \/ error \in {"FitValueError", "FitException", "IndexError"}

\* The forecast table exists (line 158 was passed).
Predicted == pc \in {"predicted", "done"}

\* C1: for every pair of material columns, duplicates and empty columns
\* included, the summary satisfies unique_to_solids + overlap = solids_count,
\* unique_to_concentrates + overlap = concentrates_count and combined =
\* solids_count + concentrates_count - overlap; with either column empty the
\* overlap is 0 and each unique_to count equals its count.
C1_CoverageIdentities ==
    Analyzed =>
        LET s == material_diversity_summary
        IN  /\ s.UniqueToSolids + s.Overlapping = s.UniqueSolids
            /\ s.UniqueToConcentrates + s.Overlapping = s.UniqueConcentrates
            /\ s.TotalUnique = s.UniqueSolids + s.UniqueConcentrates - s.Overlapping
            /\ (solids_materials = <<>> \/ concentrates_materials = <<>>) =>
                   /\ s.Overlapping = 0
                   /\ s.UniqueToSolids = s.UniqueSolids
                   /\ s.UniqueToConcentrates = s.UniqueConcentrates

\* A summary of columns with a duplicate name, an overlap and a name of
\* their own.
C1_Witness ==
    /\ pc = "analyzed"
    /\ Len(solids_materials) > material_diversity_summary.UniqueSolids
    /\ material_diversity_summary.Overlapping >= 1
    /\ material_diversity_summary.UniqueToConcentrates >= 1

MissingMaterialSheet ==
    Uploaded /\ ~({"Solids", "Concentrates"} \subseteq materials_db_file.sheet_names)

MissingProductionSheet == Uploaded /\ "Production" \notin data_file.sheet_names

NothingComputed ==
    /\ shown \cap Output = {}
    /\ material_diversity_summary = NoSummary
    /\ predictions = NoPredictions

\* C2: in a run where a required sheet is absent, the run reports an error
\* and halts at the sheet check, and no coverage summary, chart or forecast
\* table is computed or shown in any state of the run.
C2_MissingSheetHalts ==
    /\ (MissingMaterialSheet /\ pc # "start") =>
           pc = "stopped" /\ error = "MissingMaterialSheets" /\ "st.error" \in shown
    /\ (MissingProductionSheet /\ pc \notin {"start", "materials_parsed"}) =>
           pc = "stopped" /\ "st.error" \in shown
               /\ error \in {"MissingMaterialSheets", "MissingProductionSheet"}
    /\ (MissingMaterialSheet \/ MissingProductionSheet) => NothingComputed

\* Workbook A holds 'Solids' but not 'Concentrates', and the run has halted.
C2_Witness ==
    /\ pc = "stopped"
    /\ error = "MissingMaterialSheets"
    /\ "Solids" \in materials_db_file.sheet_names
    /\ "Concentrates" \notin materials_db_file.sheet_names
    /\ "Production" \in data_file.sheet_names

\* C3 as stated: in every run in which an error is raised, no output at all
\* (coverage summary, coverage charts, forecast table, forecast charts) has
\* been shown.
C3_AllOrNothing == error # "none" => shown \cap Output = {}

\* C3 as amended: forecast output is shown only by a run that completed
\* without error, and a run in which an error is raised shows and computes
\* no forecast table; the coverage summary and both coverage charts are on
\* the page when the error is raised in series preparation, model fitting
\* or prediction, the summary alone when drawing the pie chart fails, and
\* nothing when a sheet or the material column is missing.
C3_NoForecastAfterError ==
    /\ (shown \cap ForecastOutput # {}) => (pc = "done" /\ error = "none")
    /\ error # "none" =>
           /\ shown \cap ForecastOutput = {}
           /\ predictions = NoPredictions
           /\ shown \cap CoverageOutput =
                  IF error \in {"KeyError: Production column", "FitValueError",
                                "FitException", "IndexError"}
                  THEN CoverageOutput
                  ELSE IF error = "PieError" THEN {"summary"} ELSE {}

\* A fit failed after the coverage summary and charts were rendered.
C3_Witness ==
    /\ pc = "stopped"
    /\ error = "FitValueError"
    /\ CoverageOutput \subseteq shown

\* C4 as stated: the fitting step is never reached with a series of zero
\* length.
C4_NoFitOfEmptySeries ==
    FitAttempted =>
        /\ production # <<>>
        /\ co2_emissions # <<>>
        /\ plastics_co2_emissions # <<>>

\* Rows of the Production sheet whose cell in column is finite.
FiniteRows(column) ==
    {i \in 1..Len(data_file.Production.rows) :
        data_file.Production.rows[i][column].k = "fin"}

\* The position of row i among the rows whose cell in column is finite.
Rank(i, column) == Cardinality({j \in FiniteRows(column) : j <= i})

ShortestLength ==
    Min3(Cardinality(FiniteRows(ColTPM)), Cardinality(FiniteRows(ColCO2)),
         Cardinality(FiniteRows(ColPlastics)))

\* series holds, in order, the first ShortestLength finite cells of column,
\* each with the date of its own row.
FirstOfOwnColumn(series, column) ==
    /\ Len(series) = ShortestLength
    /\ \A i \in FiniteRows(column) :
           Rank(i, column) <= ShortestLength =>
               series[Rank(i, column)] =
                   [Date |-> data_file.Production.rows[i].Date,
                    v |-> data_file.Production.rows[i][column]]

\* C5: after cleaning and truncation the three series have the same length,
\* the minimum of their lengths after cleaning, and each is the first
\* entries of its own cleaned column in the original order, whatever the
\* dates of the other two.
C5_AlignedByPosition ==
    Prepared =>
        /\ FirstOfOwnColumn(production, ColTPM)
        /\ FirstOfOwnColumn(co2_emissions, ColCO2)
        /\ FirstOfOwnColumn(plastics_co2_emissions, ColPlastics)

\* Production was truncated, and its first entry and the first material CO2
\* entry come from different rows.
C5_Witness ==
    /\ pc = "series_prepared"
    /\ Len(production) >= 1
    /\ Cardinality(FiniteRows(ColTPM)) > Len(production)
    /\ production[1].Date # co2_emissions[1].Date

\* C6: once the three fits have succeeded and the table is built, each
\* forecast sequence and the future-date sequence, hence every column of the
\* forecast table, has exactly 24 entries, whatever the length of the
\* input series.
C6_HorizonIs24 ==
    Predicted =>
        /\ Len(predictions.Date) = 24
        /\ Len(predictions.PredictedProduction) = 24
        /\ Len(predictions.PredictedMaterial) = 24
        /\ Len(predictions.PredictedPlastics) = 24
        /\ Len(predictions.CO2PerTonMaterial) = 24
        /\ Len(predictions.CO2PerTonPlastics) = 24
        /\ Len(predictions.CumulativeCO2Reduction) = 24
        /\ Len(predictions.TotalCO2Reduction100) = 24
        /\ Len(predictions.PlasticAvoided100) = 24

\* A forecast table built from a series of a single observation.
C6_Witness ==
    /\ pc = "done"
    /\ Len(production) = 1
    /\ Len(predictions.PredictedProduction) = 24

LastHistoricalDate == production[Len(production)].Date

C8_CumulativeIsRunningSum ==
    Predicted =>
        LET cum == predictions.CumulativeCO2Reduction
            pl == predictions.PredictedPlastics
            mat == predictions.PredictedMaterial
        IN  /\ Len(cum) = 24
            /\ cum[1] = pl[1] - mat[1]
            /\ \A i \in 2..24 : cum[i] = cum[i - 1] + (pl[i] - mat[i])

\* A table whose second cumulative value differs from the second difference.
C8_Witness ==
    /\ pc = "predicted"
    /\ predictions.PredictedPlastics[1] # predictions.PredictedMaterial[1]
    /\ predictions.CumulativeCO2Reduction[2] #
           predictions.PredictedPlastics[2] - predictions.PredictedMaterial[2]

NonDecreasing(s) == \A i \in 2..Len(s) : s[i - 1] <= s[i]

\* C9 as stated: the cumulative reduction is non-decreasing only if
\* predicted plastics CO2 >= predicted material CO2 in every row, the first
\* row included.
C9_MonotoneOnlyIfAllRows ==
    (Predicted /\ NonDecreasing(predictions.CumulativeCO2Reduction)) =>
        \A i \in 1..24 :
            predictions.PredictedPlastics[i] >= predictions.PredictedMaterial[i]

\* C9 as amended: the cumulative reduction is non-decreasing only if
\* predicted plastics CO2 >= predicted material CO2 in every row after the
\* first (rows 1..23, here 2..24); the first row is not constrained.
C9_MonotoneOnlyIfLaterRows ==
    (Predicted /\ NonDecreasing(predictions.CumulativeCO2Reduction)) =>
        \A i \in 2..24 :
            predictions.PredictedPlastics[i] >= predictions.PredictedMaterial[i]

\* A non-decreasing cumulative reduction that grows, in a table whose first
\* row has plastics CO2 below material CO2.
C9_Witness ==
    /\ Predicted
    /\ NonDecreasing(predictions.CumulativeCO2Reduction)
    /\ predictions.CumulativeCO2Reduction[1] < predictions.CumulativeCO2Reduction[24]
    /\ predictions.PredictedPlastics[1] < predictions.PredictedMaterial[1]

ScaledBy(factor) ==
    \A i \in 1..Len(predictions.Date) :
        /\ predictions.TotalCO2Reduction100[i] =
               predictions.CumulativeCO2Reduction[i] * factor
        /\ predictions.PlasticAvoided100[i] =
               predictions.PredictedProduction[i] * factor

\* C10 as stated: for each of the scale factors 1, 100 and 0 a caller may
\* supply, every forecast row has total_co2_reduction_scaled =
\* cumulative_co2_reduction * factor and plastic_avoided_scaled =
\* predicted_production * factor.
C10_ScaledByAnyFactor ==
    Predicted => \A factor \in {1, 100, 0} : ScaledBy(factor)

\* C10 as amended: the scale factor is the constant 100, not an input of the
\* run, and every forecast row has total = cumulative * 100 and
\* plastic avoided = predicted production * 100.
C10_ScaledBy100 ==
    Predicted => Len(predictions.Date) = 24 /\ ScaledBy(100)

\* A table with a non-zero cumulative reduction and a non-zero production.
C10_Witness ==
    /\ pc = "done"
    /\ predictions.CumulativeCO2Reduction[1] # 0
    /\ predictions.PredictedProduction[24] # 0
    /\ predictions.TotalCO2Reduction100[1] # predictions.CumulativeCO2Reduction[1]

====
